---- MODULE Spec2Model ----
(***************************************************************************)
(* Model of the product catalog service: src/routes/products.js (the CRUD  *)
(* handlers, the multer upload middleware, the WebSocket broadcast) and    *)
(* src/server.js (the Express application: no error middleware, so an      *)
(* error passed to next() is answered by Express's default handler).       *)
(*                                                                         *)
(* Node runs every handler to completion on one thread, so one action is   *)
(* one request; the order of the statements inside a handler is kept in    *)
(* lastReq.events.  The asynchronous fs.unlink calls complete later, in    *)
(* the action UnlinkDone.  The process is started in the directory of      *)
(* server.js, so multer's 'uploads/', the static route and                 *)
(* path.join(__dirname, '..', fotoUrl) name the same directory; a file of  *)
(* that directory is identified by the uuid of its name.                   *)
(***************************************************************************)
EXTENDS Integers, Sequences, FiniteSets, TLC

\* uuids generated over the whole run (product ids and file names)
MaxUuid == 3
\* milliseconds the clock may advance over the whole run
MaxClock == 1

VARIABLES products, disk, pendingUnlink, errLog, uuidCount, clock, deletedIds, lastReq

vars == <<products, disk, pendingUnlink, errLog, uuidCount, clock, deletedIds, lastReq>>

\* ------------------------------------------------------------------------
\* Values.  A string is a sequence of one-character strings.
\* ------------------------------------------------------------------------

\* a form field that the request does not carry (req.body.x === undefined)
Undefined == <<"undefined">>

\* let fotoUrl = null
NullFoto == 0

\* parseFloat's NaN; a number is num/den with den a power of ten
NaN == [num |-> 0, den |-> 0]

Digits == {"0", "1", "2", "3", "4", "5", "6", "7", "8", "9"}

DigitVal(c) ==
  CASE c = "0" -> 0 [] c = "1" -> 1 [] c = "2" -> 2 [] c = "3" -> 3 [] c = "4" -> 4
    [] c = "5" -> 5 [] c = "6" -> 6 [] c = "7" -> 7 [] c = "8" -> 8 [] c = "9" -> 9

RECURSIVE Pow10(_)
Pow10(n) == IF n = 0 THEN 1 ELSE 10 * Pow10(n - 1)

RECURSIVE DigitRun(_, _)
\* the number of consecutive digits of s from position i on
DigitRun(s, i) ==
  IF i <= Len(s) /\ s[i] \in Digits THEN 1 + DigitRun(s, i + 1) ELSE 0

RECURSIVE DigitsValue(_, _, _)
\* the decimal value of the n digits of s from position i on
DigitsValue(s, i, n) ==
  IF n = 0 THEN 0
  ELSE DigitsValue(s, i, n - 1) * 10 + DigitVal(s[i + n - 1])

RECURSIVE TrimStart(_)
TrimStart(s) == IF Len(s) > 0 /\ s[1] = " " THEN TrimStart(Tail(s)) ELSE s

RECURSIVE Normalize(_)
\* 5.0 and 5 are the same number
Normalize(v) ==
  IF v.den > 1 /\ v.num % 10 = 0
  THEN Normalize([num |-> v.num \div 10, den |-> v.den \div 10])
  ELSE v

\* parseFloat: leading blanks are skipped, then the longest prefix that is a
\* decimal literal (sign, digits, '.', digits) is the value; what follows
\* the prefix is ignored; no such prefix gives NaN.
ParseFloat(str) ==
  LET s == TrimStart(str)
      hasSign == Len(s) >= 1 /\ s[1] \in {"-", "+"}
      i0 == IF hasSign THEN 2 ELSE 1
      nInt == DigitRun(s, i0)
      hasDot == i0 + nInt <= Len(s) /\ s[i0 + nInt] = "."
      nFrac == IF hasDot THEN DigitRun(s, i0 + nInt + 1) ELSE 0
      mag == DigitsValue(s, i0, nInt) * Pow10(nFrac)
             + DigitsValue(s, i0 + nInt + 1, nFrac)
  IN IF s = Undefined \/ nInt + nFrac = 0 THEN NaN
     ELSE Normalize([num |-> IF hasSign /\ s[1] = "-" THEN 0 - mag ELSE mag,
                     den |-> Pow10(nFrac)])

IsNaN(v) == v.den = 0

\* !x for a form field: undefined and the empty string are falsy
Falsy(x) == x = Undefined \/ x = <<>>

\* ------------------------------------------------------------------------
\* The upload middleware: multer({storage, limits, fileFilter}).single('foto')
\* ------------------------------------------------------------------------

\* limits: { fileSize: 5 * 1024 * 1024 }
FileSizeLimit == 5 * 1024 * 1024

\* the request carries no file part
NoUpload == [present |-> FALSE, ext |-> <<>>, mime |-> <<>>, size |-> 0]

ToLowerChar(c) ==
  CASE c = "P" -> "p" [] c = "N" -> "n" [] c = "G" -> "g" [] OTHER -> c

\* String.prototype.toLowerCase
ToLowerCase(s) == [i \in 1..Len(s) |-> ToLowerChar(s[i])]

\* s has pat as a substring
Contains(s, pat) ==
  \E i \in 1..(Len(s) - Len(pat) + 1) : SubSeq(s, i, i + Len(pat) - 1) = pat

\* /jpeg|jpg|png|gif/.test(s): the pattern is not anchored
AllowedTypesTest(s) ==
  \/ Contains(s, <<"j", "p", "e", "g">>)
  \/ Contains(s, <<"j", "p", "g">>)
  \/ Contains(s, <<"p", "n", "g">>)
  \/ Contains(s, <<"g", "i", "f">>)

\* fileFilter: cb(null, true), or cb(new Error(...))
FileFilter(upl) ==
  AllowedTypesTest(ToLowerCase(upl.ext)) /\ AllowedTypesTest(upl.mime)

\* upload.single('foto') on a request, u uuids having been generated so far.
\* err: multer calls next(err) and the route handler never runs.
\* file: the uuid naming the file left in uploads/ (req.file), NullFoto if none.
\* A file over the size limit is written under a fresh name, then removed by
\* multer when it aborts with LIMIT_FILE_SIZE.
UploadSingle(upl, u) ==
  IF ~upl.present THEN [err |-> FALSE, file |-> NullFoto, u |-> u]
  ELSE IF ~FileFilter(upl) THEN [err |-> TRUE, file |-> NullFoto, u |-> u]
  ELSE IF upl.size > FileSizeLimit THEN [err |-> TRUE, file |-> NullFoto, u |-> u + 1]
  ELSE [err |-> FALSE, file |-> u + 1, u |-> u + 1]

\* ------------------------------------------------------------------------
\* What a request does: the response and the side effects of its handler.
\* ------------------------------------------------------------------------

\* the response carries no product (a sequence of at most one product)
NoProduct == <<>>

\* the outcome of a handler that changes neither the collection nor the
\* pending removals and emits nothing
Answer(ps, dsk, pend, u, status, body, events, rmFailed, product) ==
  [products |-> ps, disk |-> dsk, pending |-> pend, u |-> u,
   status |-> status, body |-> body, emits |-> <<>>, events |-> events,
   rmFailed |-> rmFailed, product |-> product, tick |-> 0]

\* server.js installs no error middleware: an error thrown by a handler or
\* passed to next() by multer reaches Express's default error handler, which
\* answers 500 with an HTML page (the stack trace outside production).
DefaultErrorHandler(ps, dsk, pend, u, events, rmFailed) ==
  Answer(ps, dsk, pend, u, 500, "html", events, rmFailed, NoProduct)

\* the rejection without the rollback: the stored file is left where it is
RejectWithoutRollback(ps, dsk, pend, u, file, rmFails, status) ==
  Answer(ps, dsk, pend, u, status, "json", <<"respond">>, FALSE, NoProduct)

\* if (req.file && fs.existsSync(req.file.path)) fs.unlinkSync(req.file.path);
\* return res.status(status).json({ message })
\* rmFails: fs.unlinkSync throws (EACCES, EBUSY, ...), out of the handler.
RejectWithRollback(ps, dsk, pend, u, file, rmFails, status) ==
  IF file # NullFoto /\ file \in dsk
  THEN IF rmFails
       THEN DefaultErrorHandler(ps, dsk, pend, u, <<"unlinkSync", "throw">>, TRUE)
       ELSE Answer(ps, dsk \ {file}, pend, u, status, "json",
                   <<"unlinkSync", "respond">>, FALSE, NoProduct)
  ELSE Answer(ps, dsk, pend, u, status, "json", <<"respond">>, FALSE, NoProduct)

\* isNaN(parseFloat(preco)) || parseFloat(preco) < 0
PrecoInvalid(preco) == IsNaN(ParseFloat(preco)) \/ ParseFloat(preco).num < 0

\* the object literal newProduct; t1 and t2 are the two readings of the clock
NewProduct(id, titulo, descricao, preco, fotoUrl, t1, t2) ==
  [id |-> id, titulo |-> titulo, descricao |-> descricao,
   preco |-> ParseFloat(preco), fotoUrl |-> fotoUrl,
   createdAt |-> t1, updatedAt |-> t2]

\* the broadcast placed before the push: the payload lacks the new product
EmitAndPush(ps, dsk, pend, u, newProduct, tick) ==
  [products |-> Append(ps, newProduct), disk |-> dsk, pending |-> pend, u |-> u,
   status |-> 201, body |-> "json", emits |-> <<ps>>,
   events |-> <<"emit", "push", "respond">>,
   rmFailed |-> FALSE, product |-> <<newProduct>>, tick |-> tick]

\* products.push(newProduct); emitProductsUpdate(req.io); res.status(201).json(..)
PushAndEmit(ps, dsk, pend, u, newProduct, tick) ==
  [products |-> Append(ps, newProduct), disk |-> dsk, pending |-> pend, u |-> u,
   status |-> 201, body |-> "json", emits |-> <<Append(ps, newProduct)>>,
   events |-> <<"push", "emit", "respond">>,
   rmFailed |-> FALSE, product |-> <<newProduct>>, tick |-> tick]

\* router.post('/'): file is req.file as multer left it, now the clock when
\* the handler starts, tick the time that passes between the two new Date()
PostHandler(ps, dsk, pend, u, now, titulo, descricao, preco, file, rmFails, tick) ==
  IF Falsy(titulo) \/ Falsy(descricao) \/ Falsy(preco)
  THEN RejectWithRollback(ps, dsk, pend, u, file, rmFails, 400)
  ELSE IF PrecoInvalid(preco)
  THEN RejectWithRollback(ps, dsk, pend, u, file, rmFails, 400)
  ELSE PushAndEmit(ps, dsk, pend, u + 1,
                   NewProduct(u + 1, titulo, descricao, preco, file, now, now + tick),
                   tick)

\* products.findIndex(p => p.id === id), 0 for -1
FindIndex(ps, id) ==
  IF \E i \in 1..Len(ps) : ps[i].id = id
  THEN CHOOSE i \in 1..Len(ps) : ps[i].id = id /\ \A j \in 1..(i - 1) : ps[j].id # id
  ELSE 0

\* the previous image recorded whether or not a new file came
OldFotoPathAlways(existing, file) == existing.fotoUrl

\* oldFotoPath: the previous image, recorded only when a new file came
OldFotoPath(existing, file) ==
  IF file # NullFoto /\ existing.fotoUrl # NullFoto THEN existing.fotoUrl ELSE NullFoto

\* titulo assigned without the || fallback
UpdatedProductNoFallback(existing, titulo, descricao, preco, file, now) ==
  [existing EXCEPT
     !.fotoUrl = IF file # NullFoto THEN file ELSE @,
     !.titulo = titulo,
     !.descricao = IF Falsy(descricao) THEN @ ELSE descricao,
     !.preco = IF Falsy(preco) THEN @ ELSE ParseFloat(preco),
     !.updatedAt = now]

\* the assignments to existingProduct
UpdatedProduct(existing, titulo, descricao, preco, file, now) ==
  [existing EXCEPT
     !.fotoUrl = IF file # NullFoto THEN file ELSE @,
     !.titulo = IF Falsy(titulo) THEN @ ELSE titulo,
     !.descricao = IF Falsy(descricao) THEN @ ELSE descricao,
     !.preco = IF Falsy(preco) THEN @ ELSE ParseFloat(preco),
     !.updatedAt = now]

\* the path to remove read from the product after the swap: the new file
PutUnlinksAfterSwap(dsk, oldFotoPath, file) ==
  IF oldFotoPath # NullFoto /\ file \in dsk THEN {file} ELSE {}

\* the files whose asynchronous removal the update starts:
\* if (oldFotoPath && fs.existsSync(oldFotoPath)) fs.unlink(oldFotoPath, cb)
PutUnlinks(dsk, oldFotoPath, file) ==
  IF oldFotoPath # NullFoto /\ oldFotoPath \in dsk THEN {oldFotoPath} ELSE {}

\* the statements of a successful update, in the order of the code
PutEvents(file, unlinks) ==
  (IF file # NullFoto THEN <<"swap">> ELSE <<>>)
  \o <<"assign">>
  \o (IF unlinks # {} THEN <<"unlink">> ELSE <<>>)
  \o <<"emit", "respond">>

\* router.put('/:id')
PutHandler(ps, dsk, pend, u, now, id, titulo, descricao, preco, file, rmFails) ==
  LET idx == FindIndex(ps, id) IN
  IF idx = 0
  THEN RejectWithRollback(ps, dsk, pend, u, file, rmFails, 404)
  ELSE IF ~Falsy(preco) /\ PrecoInvalid(preco)
  THEN RejectWithRollback(ps, dsk, pend, u, file, rmFails, 400)
  ELSE LET existing == ps[idx]
           updated == UpdatedProduct(existing, titulo, descricao, preco, file, now)
           unlinks == PutUnlinks(dsk, OldFotoPath(existing, file), file)
           after == [ps EXCEPT ![idx] = updated]
       IN [products |-> after, disk |-> dsk, pending |-> pend \cup unlinks, u |-> u,
           status |-> 200, body |-> "json", emits |-> <<after>>,
           events |-> PutEvents(file, unlinks),
           rmFailed |-> FALSE, product |-> <<updated>>, tick |-> 0]

\* products.splice(idx, 1)
Splice(ps, idx) == SubSeq(ps, 1, idx - 1) \o SubSeq(ps, idx + 1, Len(ps))

\* the files whose asynchronous removal the deletion starts
DeleteUnlinks(dsk, deletedProduct) ==
  IF deletedProduct.fotoUrl # NullFoto /\ deletedProduct.fotoUrl \in dsk
  THEN {deletedProduct.fotoUrl} ELSE {}

\* router.delete('/:id')
DeleteHandler(ps, dsk, pend, u, id) ==
  LET idx == FindIndex(ps, id) IN
  IF idx = 0
  THEN Answer(ps, dsk, pend, u, 404, "json", <<"respond">>, FALSE, NoProduct)
  ELSE LET deletedProduct == ps[idx]
           unlinks == DeleteUnlinks(dsk, deletedProduct)
           after == Splice(ps, idx)
       IN [products |-> after, disk |-> dsk, pending |-> pend \cup unlinks, u |-> u,
           status |-> 200, body |-> "json", emits |-> <<after>>,
           events |-> <<"splice">> \o (IF unlinks # {} THEN <<"unlink">> ELSE <<>>)
                      \o <<"emit", "respond">>,
           rmFailed |-> FALSE, product |-> <<deletedProduct>>, tick |-> 0]

\* router.get('/:id')
GetHandler(ps, dsk, pend, u, id) ==
  LET idx == FindIndex(ps, id) IN
  IF idx = 0
  THEN Answer(ps, dsk, pend, u, 404, "json", <<"respond">>, FALSE, NoProduct)
  ELSE Answer(ps, dsk, pend, u, 200, "json", <<"respond">>, FALSE, <<ps[idx]>>)

\* ------------------------------------------------------------------------
\* The requests that are tried
\* ------------------------------------------------------------------------

Png == <<".", "p", "n", "g">>
PngUpper == <<".", "P", "N", "G">>
Exe == <<".", "e", "x", "e">>
Pngx == <<".", "p", "n", "g", "x">>
ImagePng == <<"i", "m", "a", "g", "e", "/", "p", "n", "g">>
TextPlain == <<"t", "e", "x", "t", "/", "p", "l", "a", "i", "n">>

Upload(ext, mime, size) == [present |-> TRUE, ext |-> ext, mime |-> mime, size |-> size]

\* an image that multer accepts
Foto == Upload(PngUpper, ImagePng, FileSizeLimit)

Body(titulo, descricao, preco, upl) ==
  [titulo |-> titulo, descricao |-> descricao, preco |-> preco, upl |-> upl]

\* complete forms, with and without an image, with a valid price
ValidBodies ==
  {Body(<<"A">>, <<"D">>, <<" ", "5", ".", "0">>, NoUpload),
   Body(<<"A">>, <<"D">>, <<"-", "0">>, Foto)}

\* forms with a text field missing or empty, or a price that is refused
InvalidBodies ==
  {Body(Undefined, <<"D">>, <<"5">>, Foto),
   Body(<<"A">>, <<>>, <<"-", "5">>, NoUpload),
   Body(<<"A">>, <<"D">>, <<"a", "b", "c">>, Foto)}

\* forms whose file multer refuses: extension, MIME type, size; and a file
\* whose extension only contains an allowed one
FileBodies ==
  {Body(<<"A">>, <<"D">>, <<"5">>, Upload(Exe, ImagePng, 1)),
   Body(<<"A">>, <<"D">>, <<"-", "5">>, Upload(Png, TextPlain, 1)),
   Body(<<"A">>, <<"D">>, <<"5">>, Upload(Png, ImagePng, FileSizeLimit + 1)),
   Body(<<"A">>, <<"D">>, <<"5">>, Upload(Pngx, ImagePng, 1))}

\* forms that carry only some of the fields
PartialBodies ==
  {Body(<<"A">>, Undefined, <<"5", "a">>, NoUpload),
   Body(Undefined, Undefined, <<"-", "0">>, NoUpload),
   Body(Undefined, <<"D">>, Undefined, Foto),
   Body(Undefined, Undefined, Undefined, NoUpload)}

Bodies == ValidBodies \cup InvalidBodies \cup FileBodies \cup PartialBodies

\* any uuid may be asked for, generated yet or not
Ids == 1..MaxUuid

\* ------------------------------------------------------------------------
\* How a request is recorded in lastReq
\* ------------------------------------------------------------------------

\* the whole of str is a decimal literal
IsNumeral(str) ==
  LET hasSign == Len(str) >= 1 /\ str[1] \in {"-", "+"}
      i0 == IF hasSign THEN 2 ELSE 1
      nInt == DigitRun(str, i0)
      hasDot == i0 + nInt <= Len(str) /\ str[i0 + nInt] = "."
      nFrac == IF hasDot THEN DigitRun(str, i0 + nInt + 1) ELSE 0
  IN nInt + nFrac > 0 /\ (i0 - 1) + nInt + (IF hasDot THEN 1 ELSE 0) + nFrac = Len(str)

\* what the preco field of a request is
PrecoClass(preco) ==
  IF Falsy(preco) THEN "absent"
  ELSE IF ~IsNumeral(TrimStart(preco))
  THEN (IF IsNaN(ParseFloat(preco)) THEN "nan" ELSE "trailing")
  ELSE IF ParseFloat(preco).num < 0 THEN "negative"
  ELSE "number"

AllowedExts == {<<".", "j", "p", "e", "g">>, <<".", "j", "p", "g">>, Png, <<".", "g", "i", "f">>}

AllowedMimes == {<<"i", "m", "a", "g", "e", "/", "j", "p", "e", "g">>,
                 <<"i", "m", "a", "g", "e", "/", "j", "p", "g">>, ImagePng,
                 <<"i", "m", "a", "g", "e", "/", "g", "i", "f">>}

\* what the file part of a request is
UploadClass(upl) ==
  IF ~upl.present THEN "none"
  ELSE IF ToLowerCase(upl.ext) \notin AllowedExts \/ upl.mime \notin AllowedMimes
  THEN "disallowed"
  ELSE IF upl.size > FileSizeLimit THEN "toobig"
  ELSE "ok"

\* the request just answered: what it carried, what it found (whether the
\* id was in the collection, whether it had been deleted, the image the
\* product had), and the outcome o of its handler
Record(method, id, b, file, o) ==
  [method |-> method,
   supplied |-> {f \in {"titulo", "descricao", "preco"} : ~Falsy(b[f])},
   preco |-> PrecoClass(b.preco), upl |-> UploadClass(b.upl), file |-> file,
   existed |-> FindIndex(products, id) # 0, gone |-> id \in deletedIds,
   oldFoto |-> IF FindIndex(products, id) # 0
               THEN products[FindIndex(products, id)].fotoUrl ELSE NullFoto,
   status |-> o.status, body |-> o.body, emits |-> o.emits, events |-> o.events,
   rmFailed |-> o.rmFailed, product |-> o.product]

NoBody == Body(Undefined, Undefined, Undefined, NoUpload)

\* ------------------------------------------------------------------------
\* The state machine
\* ------------------------------------------------------------------------

Init ==
  /\ products = <<>>
  /\ disk = {}
  /\ pendingUnlink = {}
  /\ errLog = {}
  /\ uuidCount = 0
  /\ clock = 0
  /\ deletedIds = {}
  /\ lastReq = [method |-> "none", supplied |-> {},
                preco |-> "absent", upl |-> "none", file |-> NullFoto,
                existed |-> FALSE, gone |-> FALSE, oldFoto |-> NullFoto, status |-> 0, body |-> "none",
                emits |-> <<>>, events |-> <<>>, rmFailed |-> FALSE,
                product |-> NoProduct]

\* the state after a request whose outcome is o
Commit(o, rec) ==
  /\ products' = o.products
  /\ disk' = o.disk
  /\ pendingUnlink' = o.pending
  /\ uuidCount' = o.u
  /\ clock' = clock + o.tick
  /\ lastReq' = rec
  /\ UNCHANGED errLog

\* the disk once multer has stored the file it accepted
Stored(m) == IF m.file # NullFoto THEN disk \cup {m.file} ELSE disk

\* fs.unlinkSync can fail only where there is a file to remove
Failures(m) == IF m.file # NullFoto THEN BOOLEAN ELSE {FALSE}

\* POST /products
Post ==
  \E b \in Bodies, tick \in 0..1 :
    \E m \in {UploadSingle(b.upl, uuidCount)} :
      \E rmFails \in Failures(m) :
        \E o \in {IF m.err
                  THEN DefaultErrorHandler(products, disk, pendingUnlink, m.u,
                                           <<"next(err)">>, FALSE)
                  ELSE PostHandler(products, Stored(m), pendingUnlink, m.u, clock,
                                   b.titulo, b.descricao, b.preco, m.file, rmFails, tick)} :
          /\ o.u <= MaxUuid
          /\ clock + tick <= MaxClock
          /\ Commit(o, Record("POST", 0, b, m.file, o))
          /\ UNCHANGED deletedIds

\* PUT /products/:id
Put ==
  \E id \in Ids, b \in Bodies :
    \E m \in {UploadSingle(b.upl, uuidCount)} :
      \E rmFails \in Failures(m) :
        \E o \in {IF m.err
                  THEN DefaultErrorHandler(products, disk, pendingUnlink, m.u,
                                           <<"next(err)">>, FALSE)
                  ELSE PutHandler(products, Stored(m), pendingUnlink, m.u, clock,
                                  id, b.titulo, b.descricao, b.preco, m.file, rmFails)} :
          /\ o.u <= MaxUuid
          /\ Commit(o, Record("PUT", id, b, m.file, o))
          /\ UNCHANGED deletedIds

\* DELETE /products/:id
Delete ==
  \E id \in Ids :
    \E o \in {DeleteHandler(products, disk, pendingUnlink, uuidCount, id)} :
      /\ Commit(o, Record("DELETE", id, NoBody, NullFoto, o))
      /\ deletedIds' = IF o.status = 200 THEN deletedIds \cup {id} ELSE deletedIds

\* GET /products/:id
GetOne ==
  \E id \in Ids :
    \E o \in {GetHandler(products, disk, pendingUnlink, uuidCount, id)} :
      /\ Commit(o, Record("GET", id, NoBody, NullFoto, o))
      /\ UNCHANGED deletedIds

\* GET /products
GetAll ==
  \E o \in {Answer(products, disk, pendingUnlink, uuidCount, 200, "json",
                   <<"respond">>, FALSE, NoProduct)} :
    /\ Commit(o, Record("LIST", 0, NoBody, NullFoto, o))
    /\ UNCHANGED deletedIds

\* the callback of fs.unlink(f, (err) => { if (err) console.error(...) }):
\* the removal has been carried out, or has failed and is logged
UnlinkDone(f) ==
  /\ f \in pendingUnlink
  /\ pendingUnlink' = pendingUnlink \ {f}
  /\ \/ disk' = disk \ {f} /\ UNCHANGED errLog
     \/ errLog' = errLog \cup {f} /\ UNCHANGED disk
  /\ UNCHANGED <<products, uuidCount, clock, deletedIds, lastReq>>

Unlink == \E f \in 1..MaxUuid : UnlinkDone(f)

\* a millisecond passes between two requests
Tick ==
  /\ clock < MaxClock
  /\ clock' = clock + 1
  /\ UNCHANGED <<products, disk, pendingUnlink, errLog, uuidCount, deletedIds, lastReq>>

Next == Post \/ Put \/ Delete \/ GetOne \/ GetAll \/ Unlink \/ Tick

Spec == Init /\ [][Next]_vars

\* Node's event loop runs the callback of every fs.unlink that was started
LiveSpec == Spec /\ \A f \in 1..MaxUuid : WF_vars(UnlinkDone(f))

\* ------------------------------------------------------------------------
\* Properties
\* ------------------------------------------------------------------------

\* event a occurs in ev, and every occurrence of b comes after it
Before(ev, a, b) ==
  /\ \E i \in 1..Len(ev) : ev[i] = a
  /\ \A i, j \in 1..Len(ev) : (ev[i] = a /\ ev[j] = b) => i < j

Occurrences(ev, a) == Cardinality({i \in 1..Len(ev) : ev[i] = a})

Mutating == {"POST", "PUT", "DELETE"}

Succeeded == lastReq.status \in {200, 201}

\* the statement that changes the collection in each handler
MutationOf(method) ==
  CASE method = "POST" -> "push" [] method = "PUT" -> "assign" [] method = "DELETE" -> "splice"

\* C1: a POST, PUT or DELETE that answers 201/200 emits exactly one
\* productsUpdate, after the collection was changed, and the payload is the
\* collection as it is at that moment.
C1_OneBroadcastAfterMutation ==
  (lastReq.method \in Mutating /\ Succeeded) =>
    /\ Len(lastReq.emits) = 1
    /\ lastReq.emits[1] = products
    /\ Occurrences(lastReq.events, "emit") = 1
    /\ Before(lastReq.events, MutationOf(lastReq.method), "emit")

C1_Witness ==
  /\ lastReq.method = "POST" /\ lastReq.status = 201
  /\ Len(products) = 2
  /\ lastReq.emits = <<products>>

\* C2 (as stated): a POST, or a PUT on an existing id, whose preco is a
\* negative number or not a number is answered 400 and leaves the collection
\* as it was.
C2_InvalidPrecoIs400 ==
  [][(lastReq'.method = "POST" \/ (lastReq'.method = "PUT" /\ lastReq'.existed))
       /\ lastReq'.preco \in {"nan", "negative"}
     => lastReq'.status = 400 /\ products' = products]_vars

\* C3: when a POST or PUT that carried a stored file is answered 400 or 404,
\* the file is no longer in the upload directory.
C3_NoOrphanAfterRejection ==
  (lastReq.method \in {"POST", "PUT"} /\ lastReq.file # NullFoto
     /\ lastReq.status \in {400, 404})
  => lastReq.file \notin disk

C3_Witness ==
  /\ lastReq.method = "POST" /\ lastReq.status = 400
  /\ lastReq.file # NullFoto /\ lastReq.preco = "nan"
  /\ lastReq.events = <<"unlinkSync", "respond">>

\* C4 (as stated): a POST or PUT whose file has a disallowed type or is over
\* 5 MiB is answered 400 with a JSON body.
C4_BadFileIs400Json ==
  (lastReq.method \in {"POST", "PUT"} /\ lastReq.upl \in {"disallowed", "toobig"})
  => (lastReq.status = 400 /\ lastReq.body = "json")

\* C5: a successful PUT leaves every field it was not given as it was,
\* never changes id or createdAt, and touches no other product.
C5_PartialUpdateFrame ==
  [][(lastReq'.method = "PUT" /\ lastReq'.status = 200) =>
       LET after == lastReq'.product[1]
           idx == FindIndex(products, after.id)
       IN /\ idx # 0
          /\ Len(products') = Len(products)
          /\ products'[idx] = after
          /\ \A i \in 1..Len(products) : i # idx => products'[i] = products[i]
          /\ after.id = products[idx].id
          /\ after.createdAt = products[idx].createdAt
          /\ "titulo" \notin lastReq'.supplied => after.titulo = products[idx].titulo
          /\ "descricao" \notin lastReq'.supplied => after.descricao = products[idx].descricao
          /\ "preco" \notin lastReq'.supplied => after.preco = products[idx].preco
          /\ lastReq'.file = NullFoto => after.fotoUrl = products[idx].fotoUrl]_vars

C5_Witness ==
  /\ lastReq.method = "PUT" /\ lastReq.status = 200
  /\ lastReq.supplied = {"preco"} /\ lastReq.file = NullFoto
  /\ Len(products) = 2
  /\ lastReq.product[1].fotoUrl # NullFoto
  /\ lastReq.product[1].updatedAt > lastReq.product[1].createdAt

\* C6 (as stated): the product a POST creates has createdAt = updatedAt.
C6_CreatedEqualsUpdated ==
  (lastReq.method = "POST" /\ lastReq.status = 201)
  => lastReq.product[1].createdAt = lastReq.product[1].updatedAt

\* a successful PUT that brought a new image for a product that had one
ReplacedFoto ==
  /\ lastReq.method = "PUT" /\ lastReq.status = 200
  /\ lastReq.file # NullFoto /\ lastReq.oldFoto # NullFoto

C7_Swap ==
  ReplacedFoto =>
    /\ lastReq.product[1].fotoUrl = lastReq.file
    /\ \E i \in 1..Len(products) : products[i] = lastReq.product[1]
    /\ lastReq.file # lastReq.oldFoto
    /\ lastReq.file \in disk /\ lastReq.file \notin pendingUnlink
    /\ Occurrences(lastReq.events, "unlink") = 1 => Before(lastReq.events, "swap", "unlink")
    /\ \/ lastReq.oldFoto \in pendingUnlink
       \/ lastReq.oldFoto \notin disk
       \/ lastReq.oldFoto \in errLog

\* C7: when a successful PUT brings a new image for a product that had one,
\* fotoUrl is the new file in the response and in the collection, the removal
\* of the previous file starts after the swap, the new file is not removed,
\* and the previous file is eventually gone unless its removal failed.
C7_OldFotoReplaced ==
  /\ []C7_Swap
  /\ \A f \in 1..MaxUuid :
       (ReplacedFoto /\ lastReq.oldFoto = f) ~> (f \notin disk \/ f \in errLog)

C7_Witness ==
  /\ ReplacedFoto
  /\ lastReq.oldFoto \notin disk /\ lastReq.oldFoto \notin errLog
  /\ lastReq.file \in disk

\* C8 (as stated): a failed removal of an image file never changes the
\* response of the request that caused it.
C8_RemovalFailureSwallowed ==
  lastReq.rmFailed => (lastReq.status \in {200, 400, 404} /\ lastReq.body = "json")

\* C9 (as stated): once a DELETE has answered 200, the id stays out of the
\* collection, and every later GET, PUT or DELETE on it answers 404, changes
\* nothing and emits nothing.
C9_DeletedIdStays404 ==
  /\ [](\A id \in deletedIds : FindIndex(products, id) = 0)
  /\ [][(lastReq'.gone /\ lastReq'.method \in {"GET", "PUT", "DELETE"})
        => (lastReq'.status = 404 /\ products' = products /\ lastReq'.emits = <<>>)]_vars

\* C10: every image a product of the collection refers to is in the upload
\* directory, whatever removals are pending or done.
C10_ReferencedFotoOnDisk ==
  \A i \in 1..Len(products) :
    products[i].fotoUrl # NullFoto => products[i].fotoUrl \in disk

C10_Witness ==
  /\ lastReq.method = "PUT" /\ Succeeded
  /\ \E i \in 1..Len(products) : products[i].fotoUrl # NullFoto
  /\ pendingUnlink # {}

====
